---- MODULE Spec2Model ----
(***************************************************************************)
(* Model of trace_icons.py: the naming rules (get_flags, normalize_name),  *)
(* the IconCollector's recursive directory scan and the emitter (write,    *)
(* write_class).                                                           *)
(*                                                                         *)
(* A Python str is modelled as a sequence of one-character strings, so     *)
(* that find, replace, slicing and capitalize are computed character by    *)
(* character the way the interpreter computes them.                        *)
(***************************************************************************)
EXTENDS Integers, Sequences, FiniteSets, TLC

VARIABLES
    pc,          \* position in __main__: "collect", "collected", "written"
    root,        \* pathlib.Path(argv.path)
    src,         \* IconCollector.src
    key,         \* IconCollector.key
    stack,       \* the active _process_dir calls, outermost first
    files,       \* history: every non-directory entry visited, in visiting order
    created,     \* history: every JField constructed, in construction order
    dirsDone,    \* history: the subdirectories whose scan has returned
    out,         \* what write() has written to fp
    npc,         \* naming rules harness: "input", "flags", "once", "twice"
    input,       \* naming rules harness: the string under test
    result       \* naming rules harness: the value returned last

vars == <<pc, root, src, key, stack, files, created, dirsDone, out,
          npc, input, result>>

collectorVars == <<pc, root, src, key, stack, files, created, dirsDone, out>>
namingVars == <<npc, input, result>>

(***************************************************************************)
(* Bounds of the model.                                                    *)
(***************************************************************************)
\* directory entries (files and subdirectories) listed during one pass
MaxEntries == 4
\* nesting depth of subdirectories below the scanned root
MaxDepth == 2
\* fragments concatenated into one naming-rules input
MaxFragments == 4

(***************************************************************************)
(* str operations.                                                         *)
(***************************************************************************)
\* s[i:] for a 0-based index 0 <= i
SliceFrom(s, i) == SubSeq(s, i + 1, Len(s))

\* s[:i] for a 0-based index 0 <= i <= len(s)
SliceTo(s, i) == SubSeq(s, 1, i)

\* t occurs in s at 0-based index i
OccursAt(s, t, i) ==
    /\ i >= 0
    /\ i + Len(t) <= Len(s)
    /\ SubSeq(s, i + 1, i + Len(t)) = t

\* the lowest index >= i at which t occurs in s, -1 when there is none
RECURSIVE FindFrom(_, _, _)
FindFrom(s, t, i) ==
    IF i + Len(t) > Len(s) THEN -1
    ELSE IF OccursAt(s, t, i) THEN i
    ELSE FindFrom(s, t, i + 1)

\* str.find: the lowest index at which t occurs in s, -1 when it does not
Find(s, t) == FindFrom(s, t, 0)

\* the `in` operator on str
Contains(s, t) == Find(s, t) # -1

\* the highest index <= i at which t occurs in s, -1 when there is none
RECURSIVE FindBack(_, _, _)
FindBack(s, t, i) ==
    IF i < 0 THEN -1
    ELSE IF OccursAt(s, t, i) THEN i
    ELSE FindBack(s, t, i - 1)

\* str.rfind: the highest index at which t occurs in s, -1 when it does not
RFind(s, t) == FindBack(s, t, Len(s) - Len(t))

\* str.replace(old, new) for a non-empty old: the non-overlapping
\* occurrences of old, found left to right, each replaced by new
RECURSIVE Replace(_, _, _)
Replace(s, old, new) ==
    LET i == Find(s, old) IN
    IF i = -1
    THEN s
    ELSE SliceTo(s, i) \o new \o Replace(SliceFrom(s, i + Len(old)), old, new)

Lowers == <<"a","b","c","d","e","f","g","h","i","j","k","l","m",
            "n","o","p","q","r","s","t","u","v","w","x","y","z">>
Uppers == <<"A","B","C","D","E","F","G","H","I","J","K","L","M",
            "N","O","P","Q","R","S","T","U","V","W","X","Y","Z">>

\* str.upper on one character
Upper(c) ==
    IF \E i \in 1..Len(Lowers) : Lowers[i] = c
    THEN Uppers[CHOOSE i \in 1..Len(Lowers) : Lowers[i] = c]
    ELSE c

\* str.lower on one character
Lower(c) ==
    IF \E i \in 1..Len(Uppers) : Uppers[i] = c
    THEN Lowers[CHOOSE i \in 1..Len(Uppers) : Uppers[i] = c]
    ELSE c

\* str.capitalize: first character upper-cased, all the others lower-cased
Capitalize(s) ==
    IF s = <<>>
    THEN s
    ELSE <<Upper(s[1])>> \o [i \in 1..(Len(s) - 1) |-> Lower(s[i + 1])]

HexDigit == <<"0","1","2","3","4","5","6","7","8","9","a","b","c","d","e","f">>

RECURSIVE HexDigits(_)
HexDigits(n) ==
    IF n < 16
    THEN <<HexDigit[n + 1]>>
    ELSE HexDigits(n \div 16) \o <<HexDigit[(n % 16) + 1]>>

\* the builtin hex() of an int
Hex(n) ==
    IF n < 0
    THEN <<"-", "0", "x">> \o HexDigits(0 - n)
    ELSE <<"0", "x">> \o HexDigits(n)

\* int | int on non-negative ints
RECURSIVE BitOr(_, _)
BitOr(a, b) ==
    IF a = 0 THEN b
    ELSE IF b = 0 THEN a
    ELSE (IF a % 2 = 1 \/ b % 2 = 1 THEN 1 ELSE 0) + 2 * BitOr(a \div 2, b \div 2)

(***************************************************************************)
(* String literals of the source.                                          *)
(***************************************************************************)
S_2xDot == <<"@","2","x",".">>
S_2xDark == <<"@","2","x","_","d","a","r","k">>
S_Dark == <<"_","d","a","r","k">>
S_Stroke == <<"_","s","t","r","o","k","e">>
S_2x == <<"@","2","x">>
S_Dash == <<"-">>
S_Underscore == <<"_">>
S_Dot == <<".">>
S_Slash == <<"/">>
S_Svg == <<".","s","v","g">>
S_Png == <<".","p","n","g">>

(***************************************************************************)
(* Naming rules.                                                           *)
(***************************************************************************)
\* get_flags with the first two tests exchanged
get_flags_dark_first(name) ==
    IF Contains(name, S_2xDark) THEN 4
    ELSE IF Contains(name, S_2xDot) THEN 1
    ELSE IF Contains(name, S_Dark) THEN 2
    ELSE IF Contains(name, S_Stroke) THEN 8
    ELSE 0

get_flags(name) ==
    IF Contains(name, S_2xDot) THEN 1
    ELSE IF Contains(name, S_2xDark) THEN 4
    ELSE IF Contains(name, S_Dark) THEN 2
    ELSE IF Contains(name, S_Stroke) THEN 8
    ELSE 0

normalize_name(name) ==
    LET r1 == Replace(name, S_Dark, <<>>)
        r2 == Replace(r1, S_Stroke, <<>>)
        r3 == Replace(r2, S_2x, <<>>)
    IN  Replace(r3, S_Dash, S_Underscore)

(***************************************************************************)
(* pathlib.  A path is its anchor ("" or "/") and its parts; "/" is the    *)
(* separator (as_posix and str agree).                                     *)
(***************************************************************************)
\* s.split("/")
RECURSIVE Split(_)
Split(s) ==
    LET i == Find(s, S_Slash) IN
    IF i = -1
    THEN <<s>>
    ELSE <<SliceTo(s, i)>> \o Split(SliceFrom(s, i + 1))

\* pathlib.Path(s): empty and "." components are dropped
PathOf(s) ==
    [anchor |-> IF Len(s) > 0 /\ s[1] = "/" THEN S_Slash ELSE <<>>,
     parts  |-> SelectSeq(Split(s), LAMBDA c : c # <<>> /\ c # S_Dot)]

RECURSIVE JoinParts(_)
JoinParts(parts) ==
    IF Len(parts) = 0 THEN <<>>
    ELSE IF Len(parts) = 1 THEN parts[1]
    ELSE parts[1] \o S_Slash \o JoinParts(Tail(parts))

\* str(path), path.as_posix()
Str(p) ==
    IF p.parts = <<>>
    THEN (IF p.anchor = <<>> THEN S_Dot ELSE p.anchor)
    ELSE p.anchor \o JoinParts(p.parts)

\* path / name, for a name that holds no separator
JoinPath(p, name) ==
    IF name = <<>> \/ name = S_Dot
    THEN p
    ELSE [p EXCEPT !.parts = Append(@, name)]

\* path.name
PathName(p) == IF p.parts = <<>> THEN <<>> ELSE p.parts[Len(p.parts)]

\* path.suffix, of the final component
Suffix(name) ==
    LET i == RFind(name, S_Dot) IN
    IF 0 < i /\ i < Len(name) - 1 THEN SliceFrom(name, i) ELSE <<>>

\* path.stem, of the final component
Stem(name) ==
    LET i == RFind(name, S_Dot) IN
    IF 0 < i /\ i < Len(name) - 1 THEN SliceTo(name, i) ELSE name

(***************************************************************************)
(* Tree model.  A dict is the sequence of its items in insertion order;    *)
(* a value is a JField or a nested dict.                                   *)
(***************************************************************************)
JField(name, k, flags, path) ==
    [type |-> "JField", name |-> name, key |-> k, flags |-> flags, path |-> path]

SubMap(items) == [type |-> "dict", items |-> items]

HasKey(d, k) == \E i \in 1..Len(d) : d[i].k = k

\* d[k] = v: a present key keeps its position and gets the new value
DictSet(d, k, v) ==
    IF HasKey(d, k)
    THEN [i \in 1..Len(d) |-> IF d[i].k = k THEN [k |-> k, v |-> v] ELSE d[i]]
    ELSE Append(d, [k |-> k, v |-> v])

(***************************************************************************)
(* IconCollector.                                                          *)
(***************************************************************************)
InitialKey == -243615036

\* self.src = src or "."
CollectorSrc(s) == IF s = <<>> THEN S_Dot ELSE s

\* self.extensions = extensions or [".svg", ".png"]
Extensions == {S_Svg, S_Png}

\* the first test and the first two statements of _process_file
IsIcon(fname) == Suffix(fname) \in Extensions
IconName(fname) == normalize_name(Stem(fname))

\* the truncation, cutting at the last occurrence of the marker
SourceRelativeLast(full_name, marker) ==
    LET idx == RFind(Str(full_name), marker) IN
    IF idx # -1 THEN SliceFrom(Str(full_name), idx) ELSE Str(full_name)

\* idx = str(full_name).find(self.src) and the slice taken from it
SourceRelative(full_name, marker) ==
    LET idx == Find(Str(full_name), marker) IN
    IF idx # -1 THEN SliceFrom(Str(full_name), idx) ELSE Str(full_name)

\* full_name as _process_file computes it for a file of directory parent
FullName(parent, fname, marker) ==
    SourceRelative(JoinPath(parent, IconName(fname)), marker)

\* the scan of dest finds a JField of that name
Known(dest, name) ==
    \E i \in 1..Len(dest) : dest[i].v.type = "JField" /\ dest[i].v.name = name

FirstKnown(dest, name) ==
    CHOOSE i \in 1..Len(dest) :
        /\ dest[i].v.type = "JField" /\ dest[i].v.name = name
        /\ \A j \in 1..(i - 1) :
              ~(dest[j].v.type = "JField" /\ dest[j].v.name = name)

\* the merge, storing the later file's flags instead of OR-ing them in
MergeAssign(dest, name, flags) ==
    [dest EXCEPT ![FirstKnown(dest, name)].v.flags = flags]

\* jfield.flags |= flags on the first JField of that name
Merge(dest, name, flags) ==
    [dest EXCEPT ![FirstKnown(dest, name)].v.flags = BitOr(@, flags)]

\* _process_file(path, dest) for the file fname of directory parent:
\* the dest it leaves
process_file(dest, parent, fname, k, marker) ==
    IF IsIcon(fname)
    THEN LET flags == get_flags(fname)
             name == IconName(fname)
             full_name == FullName(parent, fname, marker)
         IN  IF Known(dest, name)
             THEN Merge(dest, name, flags)
             ELSE DictSet(dest, full_name, JField(name, k, flags, full_name))
    ELSE dest

\* the key counter after one child of iterdir() has been taken: decrement
\* for directories as well
KeyAfterEveryChild(k, isDir) == k - 1

\* the key counter after one child of iterdir() has been taken: branches
\* exchanged
KeyAfterChildSwapped(k, isDir) == IF isDir THEN k - 1 ELSE k

\* the key counter after one child of iterdir() has been taken
KeyAfterChild(k, isDir) == IF isDir THEN k ELSE k - 1

(***************************************************************************)
(* The inputs: the command line and what iterdir() yields.  The directory  *)
(* tree is discovered as the scan lists it: each step of a _process_dir    *)
(* loop takes any entry of the pools the directory has not yielded yet, or *)
(* finds the listing exhausted, so every tree over the pools and every     *)
(* listing order is covered.                                               *)
(***************************************************************************)
N_foo == <<"f","o","o">>
N_toolBar == <<"t","o","o","l","B","a","r">>
N_icons == <<"i","c","o","n","s">>

\* argv.path
RootArgs ==
    { <<".", "/">>,
      N_icons,
      <<"/", "a", "/", "b", "/">> \o N_icons \o S_Slash }

\* argv.src
SrcArgs == { N_icons, N_foo }

\* names of non-directory entries
FileNames ==
    { N_foo \o S_Svg,
      N_foo \o S_Dark \o S_Svg,
      <<"b","a","r">> \o S_2x \o S_Png,
      <<"n","o","t","e","s",".","t","x","t">> }

\* names of subdirectories
DirNames == { N_toolBar, N_foo }

\* argv.package, argv.name
Packages == { <<"d","e","m","o">> }
ClassNames == { <<"I","c","o","n","s">> }

Frame(path, names) ==
    [path |-> path, names |-> names, imap |-> <<>>,
     seenFiles |-> {}, seenDirs |-> {}]

Top == stack[Len(stack)]

\* entries listed so far in the whole pass
Listed == Len(files) + Cardinality(dirsDone) + (Len(stack) - 1)

\* collector.icon_map: the dict the outermost _process_dir fills
icon_map == stack[1].imap

(***************************************************************************)
(* Emitter.                                                                *)
(***************************************************************************)
\* JField.__str__
FieldLine(f) ==
    [kind  |-> "field",
     ident |-> Capitalize(f.name),
     path  |-> S_Slash \o f.path,
     key   |-> Hex(f.key) \o <<"L">>,
     flags |-> Hex(f.flags)]

\* the first write of write_class
ClassLine(icon_path) ==
    [kind |-> "class", ident |-> Capitalize(PathName(PathOf(icon_path)))]

\* the closing write of write_class
CloseLine == [kind |-> "close"]

\* get_header(package, name)
HeadLine(package, name) ==
    [kind |-> "head", package |-> package, class |-> name, literal |-> name]

\* FOOTER
FooterLine == [kind |-> "footer"]

\* the loop of write and of write_class over values, and write_class itself
RECURSIVE WriteValues(_)
WriteValues(values) ==
    IF values = <<>>
    THEN <<>>
    ELSE LET item == Head(values) IN
         (IF item.v.type = "JField"
          THEN <<FieldLine(item.v)>>
          ELSE <<ClassLine(item.k)>> \o WriteValues(item.v.items) \o <<CloseLine>>)
         \o WriteValues(Tail(values))

\* write(fp, package, name, values)
WriteAll(package, name, values) ==
    <<HeadLine(package, name)>> \o WriteValues(values) \o <<FooterLine>>

(***************************************************************************)
(* Actions of the collection pass and of the emitter.                      *)
(***************************************************************************)
\* one iteration of the loop of _process_dir on a non-directory child
ProcessFile ==
    /\ pc = "collect"
    /\ Listed < MaxEntries
    /\ \E fname \in FileNames \ Top.seenFiles :
        LET k == KeyAfterChild(key, FALSE)
            dest == Top.imap
            makes == IsIcon(fname) /\ ~Known(dest, IconName(fname))
            full_name == FullName(Top.path, fname, src)
        IN  /\ key' = k
            /\ stack' = [stack EXCEPT
                  ![Len(stack)].imap = process_file(dest, Top.path, fname, k, src),
                  ![Len(stack)].seenFiles = @ \cup {fname}]
            /\ files' = Append(files, [dir |-> Top.names, file |-> fname, key |-> k])
            /\ created' =
                  IF makes
                  THEN Append(created,
                         [dir |-> Top.names, parent |-> Top.path, file |-> fname,
                          field |-> JField(IconName(fname), k,
                                           get_flags(fname), full_name)])
                  ELSE created
    /\ UNCHANGED <<pc, root, src, dirsDone, out, namingVars>>

\* one iteration of the loop of _process_dir on a subdirectory: the
\* recursive call starts with an empty sub_map
EnterDir ==
    /\ pc = "collect"
    /\ Listed < MaxEntries
    /\ Len(stack) <= MaxDepth
    /\ \E dname \in DirNames \ Top.seenDirs :
        /\ stack' = Append(
              [stack EXCEPT ![Len(stack)].seenDirs = @ \cup {dname}],
              Frame(JoinPath(Top.path, dname), Append(Top.names, dname)))
        /\ key' = KeyAfterChild(key, TRUE)
    /\ UNCHANGED <<pc, root, src, files, created, dirsDone, out, namingVars>>

\* the recursive call returns: imap[child.name] = sub_map
ReturnDir ==
    /\ pc = "collect"
    /\ Len(stack) > 1
    /\ LET parent == Len(stack) - 1 IN
       stack' = [SubSeq(stack, 1, parent) EXCEPT
                    ![parent].imap =
                        DictSet(@, PathName(Top.path), SubMap(Top.imap))]
    /\ dirsDone' = dirsDone \cup {Top.names}
    /\ UNCHANGED <<pc, root, src, key, files, created, out, namingVars>>

\* collector.process returns
Collected ==
    /\ pc = "collect"
    /\ Len(stack) = 1
    /\ pc' = "collected"
    /\ UNCHANGED <<root, src, key, stack, files, created, dirsDone, out, namingVars>>

\* write(fp, argv.package, argv.name, collector.icon_map)
Write ==
    /\ pc = "collected"
    /\ \E package \in Packages, name \in ClassNames :
          out' = WriteAll(package, name, icon_map)
    /\ pc' = "written"
    /\ UNCHANGED <<root, src, key, stack, files, created, dirsDone, namingVars>>

Init ==
    /\ pc = "collect"
    /\ root \in { PathOf(a) : a \in RootArgs }
    /\ src \in { CollectorSrc(m) : m \in SrcArgs }
    /\ key = InitialKey
    /\ stack = << Frame(root, <<>>) >>
    /\ files = <<>>
    /\ created = <<>>
    /\ dirsDone = {}
    /\ out = <<>>
    /\ npc = "idle"
    /\ input = <<>>
    /\ result = <<>>

\* the stack while the naming rules are exercised on their own: one empty dict
IdleStack == << Frame(PathOf(S_Dot), <<>>) >>

Next ==
    \/ ProcessFile
    \/ EnterDir
    \/ ReturnDir
    \/ Collected
    \/ Write

Spec == Init /\ [][Next]_vars

(***************************************************************************)
(* The naming rules on their own: each input is a concatenation of at most *)
(* MaxFragments fragments, and the rules are applied to it.                *)
(***************************************************************************)
Fragments ==
    { S_Dark, S_Stroke, S_2x, S_Dash, S_Dot, <<"a">>,
      <<"_","d">>, <<"a","r","k">>, <<"d","a","r","k">> }

RECURSIVE Concat(_)
Concat(ss) == IF ss = <<>> THEN <<>> ELSE Head(ss) \o Concat(Tail(ss))

NamingInputs ==
    { Concat(ss) : ss \in UNION { [1..n -> Fragments] : n \in 0..MaxFragments } }

\* flags = get_flags(path.name)
DeriveFlags ==
    /\ npc = "input"
    /\ result' = <<get_flags(input)>>
    /\ npc' = "flags"
    /\ UNCHANGED <<input, collectorVars>>

\* name = normalize_name(path.stem)
NormalizeOnce ==
    /\ npc = "input"
    /\ result' = <<normalize_name(input)>>
    /\ npc' = "once"
    /\ UNCHANGED <<input, collectorVars>>

\* normalize_name applied to a name it returned
NormalizeAgain ==
    /\ npc = "once"
    /\ result' = Append(result, normalize_name(result[1]))
    /\ npc' = "twice"
    /\ UNCHANGED <<input, collectorVars>>

NamingInit ==
    /\ pc = "idle"
    /\ root = PathOf(S_Dot)
    /\ src = S_Dot
    /\ key = InitialKey
    /\ stack = IdleStack
    /\ files = <<>>
    /\ created = <<>>
    /\ dirsDone = {}
    /\ out = <<>>
    /\ npc = "input"
    /\ input \in NamingInputs
    /\ result = <<>>

NamingNext ==
    \/ DeriveFlags
    \/ NormalizeOnce
    \/ NormalizeAgain

NamingSpec == NamingInit /\ [][NamingNext]_vars

(***************************************************************************)
(* Properties.                                                             *)
(***************************************************************************)
\* every bit set in a is set in b
RECURSIVE BitsWithin(_, _)
BitsWithin(a, b) ==
    IF a = 0 THEN TRUE
    ELSE /\ (a % 2 = 1 => b % 2 = 1)
         /\ BitsWithin(a \div 2, b \div 2)

\* s with its first character upper-cased and the others unchanged
CapitalizeFirstOnly(s) ==
    IF s = <<>> THEN s ELSE <<Upper(s[1])>> \o Tail(s)

\* t occurs somewhere in s
Occurs(s, t) == \E i \in 0..Len(s) : OccursAt(s, t, i)

\* the JFields of a dict, in insertion order
FieldsOf(items) ==
    LET sel == SelectSeq(items, LAMBDA it : it.v.type = "JField")
    IN  [i \in 1..Len(sel) |-> sel[i].v]

\* the dict reached from items by following the keys names, if each of them
\* is present and holds a dict
RECURSIVE Descend(_, _)
Descend(items, names) ==
    IF names = <<>>
    THEN [ok |-> TRUE, items |-> items]
    ELSE IF \E i \in 1..Len(items) :
                items[i].k = Head(names) /\ items[i].v.type = "dict"
         THEN LET i == CHOOSE i \in 1..Len(items) :
                          items[i].k = Head(names) /\ items[i].v.type = "dict"
              IN  Descend(items[i].v.items, Tail(names))
         ELSE [ok |-> FALSE, items |-> <<>>]

\* the DirectoryNode of the directory reached from the root by names: the
\* dict of its own scan while that is active, else the dict linked below
\* the innermost active scan of one of its ancestors
NodeOf(names) ==
    LET k == CHOOSE k \in 1..Len(stack) :
                /\ k - 1 <= Len(names)
                /\ stack[k].names = SubSeq(names, 1, k - 1)
                /\ \A j \in (k + 1)..Len(stack) :
                      ~(/\ j - 1 <= Len(names)
                        /\ stack[j].names = SubSeq(names, 1, j - 1))
    IN  Descend(stack[k].imap, SubSeq(names, k, Len(names)))

\* the directories whose scan has returned
Processed == dirsDone \cup (IF pc = "collect" THEN {} ELSE {<<>>})

RECURSIVE OrAll(_)
OrAll(fl) == IF fl = <<>> THEN 0 ELSE BitOr(Head(fl), OrAll(Tail(fl)))

\* the visited icon files of directory d that normalize to name n, in order
VariantsOf(d, n) ==
    SelectSeq(files, LAMBDA f : f.dir = d /\ IsIcon(f.file) /\ IconName(f.file) = n)

\* C1: once a directory is processed, a name that two or more of its icon
\* files normalize to has exactly one IconEntry in the directory's node,
\* whose flags are the OR of the flags of all those files and whose key and
\* path are the ones assigned when the first of them was processed.
C1_MergeProperty ==
    \A d \in Processed :
        NodeOf(d).ok =>
            \A i \in 1..Len(files) :
                LET n == IconName(files[i].file)
                    vs == VariantsOf(d, n)
                    fs == FieldsOf(NodeOf(d).items)
                    same == { j \in 1..Len(fs) : fs[j].name = n }
                IN  (files[i].dir = d /\ IsIcon(files[i].file) /\ Len(vs) >= 2) =>
                        /\ Cardinality(same) = 1
                        /\ \A j \in same :
                              /\ fs[j].flags = OrAll([x \in 1..Len(vs) |-> get_flags(vs[x].file)])
                              /\ fs[j].key = vs[1].key
                              /\ \E c \in 1..Len(created) :
                                    /\ created[c].dir = d
                                    /\ created[c].file = vs[1].file
                                    /\ fs[j].path = created[c].field.path

\* the end-to-end scenario: the scanned directory is named icons, holds
\* exactly foo.svg, foo_dark.svg and bar@2x.png, and the marker is "icons"
EndToEndScenario ==
    /\ PathName(root) = N_icons
    /\ src = N_icons
    /\ stack[1].seenDirs = {}
    /\ stack[1].seenFiles =
          { N_foo \o S_Svg, N_foo \o S_Dark \o S_Svg,
            <<"b","a","r">> \o S_2x \o S_Png }

\* C2: in the end-to-end scenario, whatever the listing order, the output
\* is the header for demo/Icons, two accessor declarations and the footer;
\* Foo carries flags 0x2, Bar carries flags 0x1, and the two keys are
\* distinct negative constants.
C2_EndToEnd ==
    (pc = "written" /\ EndToEndScenario) =>
        /\ Len(out) = 4
        /\ out[1] = [kind |-> "head", package |-> <<"d","e","m","o">>,
                     class |-> <<"I","c","o","n","s">>,
                     literal |-> <<"I","c","o","n","s">>]
        /\ out[4] = [kind |-> "footer"]
        /\ out[2].kind = "field" /\ out[3].kind = "field"
        /\ { <<out[i].ident, out[i].flags>> : i \in {2, 3} } =
              { << <<"F","o","o">>, <<"0","x","2">> >>,
                << <<"B","a","r">>, <<"0","x","1">> >> }
        /\ out[2].key # out[3].key
        /\ \A i \in {2, 3} : out[i].key[1] = "-"

\* C2's case is reached: the scenario has been emitted with the dark
\* variant listed before the plain file
C2_Witness ==
    /\ pc = "written"
    /\ EndToEndScenario
    /\ files[1].file = N_foo \o S_Dark \o S_Svg

\* the class blocks open at each line of lines, as the sequence of their
\* identifiers (a class line and its closing line count as inside)
RECURSIVE BlockPaths(_, _)
BlockPaths(lines, cur) ==
    IF lines = <<>>
    THEN <<>>
    ELSE LET l == Head(lines) IN
         IF l.kind = "class"
         THEN <<Append(cur, l.ident)>> \o BlockPaths(Tail(lines), Append(cur, l.ident))
         ELSE IF l.kind = "close"
         THEN <<cur>> \o BlockPaths(Tail(lines), SubSeq(cur, 1, Len(cur) - 1))
         ELSE <<cur>> \o BlockPaths(Tail(lines), cur)

\* C3: every scanned subdirectory is a nested DirectoryNode under its own
\* name in its parent's node, and the output holds for it exactly one
\* balanced class block, at the directory's depth, with exactly the
\* declarations of its IconEntries and the blocks of its subdirectories.
C3_NestingMirrorsTree ==
    /\ \A d \in dirsDone : NodeOf(d).ok
    /\ pc = "written" =>
          LET paths == BlockPaths(out, <<>>) IN
          \A d \in dirsDone :
              LET want == [j \in 1..Len(d) |-> Capitalize(d[j])]
                  fs == FieldsOf(NodeOf(d).items)
              IN  /\ Cardinality({ i \in 1..Len(out) :
                          out[i].kind = "class" /\ paths[i] = want }) = 1
                  /\ Cardinality({ i \in 1..Len(out) :
                          out[i].kind = "close" /\ paths[i] = want }) = 1
                  /\ { out[i].path : i \in { j \in 1..Len(out) :
                          out[j].kind = "field" /\ paths[j] = want } }
                       = { S_Slash \o fs[j].path : j \in 1..Len(fs) }
                  /\ \A i \in 1..Len(out) :
                        (/\ out[i].kind = "class"
                         /\ Len(paths[i]) = Len(want) + 1
                         /\ SubSeq(paths[i], 1, Len(want)) = want)
                        => \E e \in dirsDone :
                              /\ Len(e) = Len(d) + 1
                              /\ SubSeq(e, 1, Len(d)) = d
                              /\ Capitalize(e[Len(e)]) = paths[i][Len(paths[i])]

\* path is s cut at the first occurrence of marker, or s when there is none
CutAtFirst(path, s, marker) ==
    LET occ == { i \in 0..Len(s) : OccursAt(s, marker, i) } IN
    IF occ = {}
    THEN path = s
    ELSE \E i \in occ :
            /\ \A j \in occ : i <= j
            /\ path = SliceFrom(s, i)

\* C4 as stated: the stored path of every IconEntry is the string
\* parent-directory-path + "/" + normalized-name, cut at the first
\* occurrence of the marker if there is one.
C4_TruncatesConcatenation ==
    \A c \in 1..Len(created) :
        CutAtFirst(created[c].field.path,
                   Str(created[c].parent) \o S_Slash \o created[c].field.name,
                   src)

\* C4 as amended: the stored path of every IconEntry is the string of the
\* path that joins the parent directory path and the normalized name, cut
\* at the first occurrence of the marker if there is one.
C4_TruncatesJoinedPath ==
    \A c \in 1..Len(created) :
        CutAtFirst(created[c].field.path,
                   Str(JoinPath(created[c].parent, created[c].field.name)),
                   src)

\* C4's case is reached: an entry whose joined path holds the marker twice
\* and one whose joined path does not hold it
C4_Witness ==
    \E c \in 1..Len(created) :
        LET s == Str(JoinPath(created[c].parent, created[c].field.name)) IN
        /\ \E i, j \in 0..Len(s) :
              i < j /\ OccursAt(s, src, i) /\ OccursAt(s, src, j)
        /\ \E b \in 1..Len(created) :
              ~Occurs(Str(JoinPath(created[b].parent, created[b].field.name)), src)

\* the names behind the identifiers the emitter writes, in writing order
RECURSIVE EmittedNames(_)
EmittedNames(values) ==
    IF values = <<>>
    THEN <<>>
    ELSE LET item == Head(values) IN
         (IF item.v.type = "JField"
          THEN <<item.v.name>>
          ELSE <<item.k>> \o EmittedNames(item.v.items))
         \o EmittedNames(Tail(values))

\* C5: every identifier written (accessor or nested block) is the name
\* with its first character capitalized and all other characters unchanged.
C5_FirstCharacterOnly ==
    pc = "written" =>
        LET ids == SelectSeq(out, LAMBDA l : l.kind \in {"field", "class"})
            names == EmittedNames(icon_map)
        IN  /\ Len(ids) = Len(names)
            /\ \A i \in 1..Len(ids) : ids[i].ident = CapitalizeFirstOnly(names[i])

\* C6: normalize_name applied to a name it returned returns that name.
C6_Idempotent ==
    npc = "twice" => result[2] = result[1]

\* C7 as stated: get_flags never returns 4, and a name that contains
\* "@2x_dark" gets flag 1.
C7_RuleTwoUnreachable ==
    npc = "flags" =>
        /\ result[1] # 4
        /\ Occurs(input, S_2xDark) => result[1] = 1

\* C7 as amended: get_flags returns 4 exactly for the names that contain
\* "@2x_dark" and do not contain "@2x."; a name that contains "@2x." gets
\* flag 1 whatever else it contains.
C7_RuleTwoReachable ==
    npc = "flags" =>
        /\ result[1] = 4 <=> (Occurs(input, S_2xDark) /\ ~Occurs(input, S_2xDot))
        /\ Occurs(input, S_2xDot) => result[1] = 1

\* C7's case is reached: a dark high-DPI name has been classified
C7_Witness ==
    /\ npc = "flags"
    /\ Occurs(input, S_2xDark)
    /\ ~Occurs(input, S_2xDot)
    /\ result[1] = 4

\* C8: every IconEntry ever inserted is still in its directory's node, with
\* the same name, key and path and with all the flag bits it was given.
C8_NeverDeleted ==
    \A c \in 1..Len(created) :
        LET node == NodeOf(created[c].dir)
            fs == FieldsOf(node.items)
        IN  /\ node.ok
            /\ \E j \in 1..Len(fs) :
                  /\ fs[j].name = created[c].field.name
                  /\ fs[j].key = created[c].field.key
                  /\ fs[j].path = created[c].field.path
                  /\ BitsWithin(created[c].field.flags, fs[j].flags)

\* C9: the key counter is its initial value minus the number of
\* non-directory entries visited so far, whatever their extension and
\* however many subdirectories were listed.
C9_KeyConsumption ==
    key = InitialKey - Len(files)

\* C9's case is reached: a skipped file, a merged icon file and a
\* subdirectory have all been visited
C9_Witness ==
    /\ \E i \in 1..Len(files) : ~IsIcon(files[i].file)
    /\ \E i, j \in 1..Len(files) :
          /\ i < j
          /\ files[i].dir = files[j].dir
          /\ IsIcon(files[i].file) /\ IsIcon(files[j].file)
          /\ IconName(files[i].file) = IconName(files[j].file)
    /\ dirsDone # {}

\* the keys of all JFields of a dict and of the dicts nested in it
RECURSIVE KeysIn(_)
KeysIn(items) ==
    IF items = <<>>
    THEN <<>>
    ELSE LET item == Head(items) IN
         (IF item.v.type = "JField" THEN <<item.v.key>> ELSE KeysIn(item.v.items))
         \o KeysIn(Tail(items))

\* the keys of every IconEntry of the tree, the dicts of active scans included
RECURSIVE TreeKeys(_)
TreeKeys(frames) ==
    IF frames = <<>> THEN <<>>
    ELSE KeysIn(Head(frames).imap) \o TreeKeys(Tail(frames))

\* C10: the keys of all IconEntries of the tree are pairwise distinct and
\* below the counter's initial value, and each entry created has a smaller
\* key than every entry created before it.
C10_KeysUnique ==
    LET ks == TreeKeys(stack) IN
    /\ \A i, j \in 1..Len(ks) : i # j => ks[i] # ks[j]
    /\ \A i \in 1..Len(ks) : ks[i] < InitialKey
    /\ \A i, j \in 1..Len(created) :
          i < j => created[j].field.key < created[i].field.key

\* C10's case is reached: entries in two directories, with a key consumed
\* by a file that made no entry between their creations
C10_Witness ==
    /\ Len(TreeKeys(stack)) >= 3
    /\ \E i, j \in 1..Len(created) :
          /\ created[i].dir # created[j].dir
          /\ created[j].field.key < created[i].field.key - 1

====
